---- MODULE Spec2Model ----
(***************************************************************************)
(* Model of MazeAgent (src/src/maze_agent.py): the Pitsweeper agent that   *)
(* keeps a propositional knowledge base about pits, encodes warning tiles  *)
(* as clauses and scores the frontier to choose its next move.             *)
(*                                                                         *)
(* A location is a pair <<c, r>>.  A literal is <<loc, pol>>: pol = TRUE   *)
(* says "loc hosts a pit", pol = FALSE says "loc hosts no pit".  A clause  *)
(* is a set of literals, the knowledge base a set of clauses.              *)
(***************************************************************************)
EXTENDS Integers, Sequences, FiniteSets, TLC

\* ------------------------------------------------------------------------
\* Bounds of the model
\* ------------------------------------------------------------------------
Width == 4
Height == 3
MaxSteps == 2
MaxFrontier == 2

\* ------------------------------------------------------------------------
\* Program constants
\* ------------------------------------------------------------------------
PitPenalty == 20
PossiblePenalty == 15

\* ------------------------------------------------------------------------
\* Environment (collaborator of the agent)
\* ------------------------------------------------------------------------
Locs == (0 .. (Width - 1)) \X (0 .. (Height - 1))

start == <<0, 0>>

goal == <<Width - 1, Height - 1>>

\* env.get_cardinal_locs(loc, 1)
CardinalLocs(loc) ==
    { l \in Locs :
        \/ l[2] = loc[2] /\ (l[1] = loc[1] + 1 \/ l[1] = loc[1] - 1)
        \/ l[1] = loc[1] /\ (l[2] = loc[2] + 1 \/ l[2] = loc[2] - 1) }

\* the tile labels of a perception; "X" stands for any unrecognized label
TileLabels == {".", "P", "1", "2", "3", "X"}

Range(s) == { s[i] : i \in 1 .. Len(s) }

\* env.get_frontier_locs() while the player stands on loc, in the order the
\* agent's loops iterate it: up to MaxFrontier unvisited neighbours of loc
FrontierOrders(loc) ==
    { f \in UNION { [1 .. n -> CardinalLocs(loc)] : n \in 0 .. MaxFrontier } :
        \A i, j \in 1 .. Len(f) : i # j => f[i] # f[j] }

\* ------------------------------------------------------------------------
\* MazeClause and MazeKnowledgeBase
\* ------------------------------------------------------------------------
\* MazeClause([(("P", loc), pol)])
Unit(loc, pol) == { <<loc, pol>> }

IsTautology(c) == \E l \in c : <<l[1], ~l[2]>> \in c

\* kb.tell(clause)
Tell(clauses, c) ==
    IF IsTautology(c) THEN clauses
    ELSE IF \E d \in clauses : d \subseteq c THEN clauses
    ELSE { d \in clauses : ~(c \subseteq d) } \cup { c }

\* a batch of kb.tell calls
RECURSIVE TellAll(_, _)
TellAll(clauses, cs) ==
    IF cs = {} THEN clauses
    ELSE LET c == CHOOSE x \in cs : TRUE
         IN  TellAll(Tell(clauses, c), cs \ { c })

ClauseLocs(clauses) == { l[1] : l \in UNION clauses }

\* an assignment is the set of locations that host a pit
Satisfies(pits, c) == \E l \in c : (l[1] \in pits) = l[2]

Models(clauses) ==
    { m \in SUBSET ClauseLocs(clauses) : \A c \in clauses : Satisfies(m, c) }

\* kb.ask(MazeClause([(("P", loc), pol)])) given the models of the store:
\* the store entails the literal iff store /\ ~literal is unsatisfiable
AskIn(models, loc, pol) == \A m \in models : (loc \in m) = pol

Ask(clauses, loc, pol) == AskIn(Models(clauses), loc, pol)

\* literal known false / known true under the confirmed facts
KnownFalse(l, pits, safe) ==
    \/ l[2] /\ l[1] \in safe
    \/ ~l[2] /\ l[1] \in pits

KnownTrue(l, pits, safe) ==
    \/ l[2] /\ l[1] \in pits
    \/ ~l[2] /\ l[1] \in safe

\* one clause under kb.simplify_self
SimplifyClause(c, pits, safe) ==
    LET kept == { l \in c : ~KnownFalse(l, pits, safe) }
    IN  IF kept = {} THEN c ELSE kept

\* kb.simplify_self(pit_tiles, safe_tiles)
Simplify(clauses, pits, safe) ==
    LET reduced == { SimplifyClause(c, pits, safe) : c \in clauses }
        informative ==
            { c \in reduced :
                Cardinality(c) <= 1 \/ \E l \in c : ~KnownTrue(l, pits, safe) }
    IN  { c \in informative : ~\E d \in informative : d # c /\ d \subseteq c }

\* ------------------------------------------------------------------------
\* State of the agent and of its last think call
\* ------------------------------------------------------------------------
VARIABLES
    kb,             \* self.kb: the stored clauses
    possible_pits,  \* self.possible_pits
    pit_tiles,      \* self.pit_tiles
    safe_tiles,     \* self.safe_tiles
    location,       \* perception["loc"] of the last think call
    tile_type,      \* perception["tile"] of the last think call
    frontier,       \* env.get_frontier_locs() of the last think call
    adj_list,       \* adj_list of the last warning_tile_clause call
    told,           \* clauses the last warning_tile_clause call told
    outcome,        \* how the last think call ended
    result,         \* the location the last think call returned
    steps           \* number of think calls so far

vars == << kb, possible_pits, pit_tiles, safe_tiles, location, tile_type,
           frontier, adj_list, told, outcome, result, steps >>

NoLoc == << -1, -1 >>

\* Init with the loop over the start's neighbours lost
InitWithoutNeighbours ==
    /\ kb = {}
    /\ possible_pits = {}
    /\ pit_tiles = {}
    /\ safe_tiles = { start, goal }
    /\ location = start
    /\ tile_type = "."
    /\ frontier = << >>
    /\ adj_list = {}
    /\ told = {}
    /\ outcome = "init"
    /\ result = NoLoc
    /\ steps = 0

\* MazeAgent.__init__
Init ==
    /\ kb = {}
    /\ possible_pits = {}
    /\ pit_tiles = {}
    /\ safe_tiles = { start, goal } \cup CardinalLocs(start)
    /\ location = start
    /\ tile_type = "."
    /\ frontier = << >>
    /\ adj_list = {}
    /\ told = {}
    /\ outcome = "init"
    /\ result = NoLoc
    /\ steps = 0

\* MazeAgent.get_manhattan_dist
Abs(n) == IF n < 0 THEN -n ELSE n

\* the distance measured to the start instead of the goal
DistanceFromStart(loc) == Abs(loc[1] - start[1]) + Abs(loc[2] - start[2])

get_manhattan_dist(loc) == Abs(loc[1] - goal[1]) + Abs(loc[2] - goal[2])

\* ------------------------------------------------------------------------
\* MazeAgent.warning_tile_clause
\* ------------------------------------------------------------------------
Pairs(tiles, pol) ==
    { { <<a, pol>>, <<b, pol>> } : <<a, b>> \in { p \in tiles \X tiles : p[1] # p[2] } }

AllOf(tiles, pol) == { <<t, pol>> : t \in tiles }

\* EncoderClauses with a wrong degenerate test for label "2" (>= 2 for == 2)
EncoderClausesEager(warning_num, adjacent_tiles, adj) ==
    IF warning_num = "3" THEN { Unit(t, TRUE) : t \in adjacent_tiles }
    ELSE IF warning_num = "2" THEN
        IF Cardinality(adj) >= 2 THEN { Unit(t, TRUE) : t \in adj }
        ELSE Pairs(adj, TRUE) \cup { AllOf(adj, FALSE) }
    ELSE IF warning_num = "1" THEN
        IF Cardinality(adj) = 1 THEN { Unit(t, TRUE) : t \in adj }
        ELSE Pairs(adj, FALSE) \cup { AllOf(adj, TRUE) }
    ELSE {}

\* the clauses warning_tile_clause passes to kb.tell
EncoderClauses(warning_num, adjacent_tiles, adj) ==
    IF warning_num = "3" THEN { Unit(t, TRUE) : t \in adjacent_tiles }
    ELSE IF warning_num = "2" THEN
        IF Cardinality(adj) = 2 THEN { Unit(t, TRUE) : t \in adj }
        ELSE Pairs(adj, TRUE) \cup { AllOf(adj, FALSE) }
    ELSE IF warning_num = "1" THEN
        IF Cardinality(adj) = 1 THEN { Unit(t, TRUE) : t \in adj }
        ELSE Pairs(adj, FALSE) \cup { AllOf(adj, TRUE) }
    ELSE {}

\* the locations warning_tile_clause adds to pit_tiles
EncoderPits(warning_num, adjacent_tiles, adj) ==
    IF warning_num = "3" THEN adjacent_tiles
    ELSE IF warning_num = "2" /\ Cardinality(adj) = 2 THEN adj
    ELSE IF warning_num = "1" /\ Cardinality(adj) = 1 THEN adj
    ELSE {}

\* adj_list: the cardinal neighbours not known safe
Unresolved(loc, safe) == { t \in CardinalLocs(loc) : t \notin safe }

warning_tile_clause(warning_num, loc, clauses, pits, safe) ==
    LET adjacent_tiles == CardinalLocs(loc)
        adj == Unresolved(loc, safe)
        cs == EncoderClauses(warning_num, adjacent_tiles, adj)
        newPits == pits \cup EncoderPits(warning_num, adjacent_tiles, adj)
    IN  [ kb |-> Simplify(TellAll(clauses, cs), newPits, safe),
          pit_tiles |-> newPits,
          adj_list |-> adj,
          told |-> cs ]

\* ------------------------------------------------------------------------
\* MazeAgent.think
\* ------------------------------------------------------------------------
\* GoalOnFrontier with the shortcut test lost
GoalOnFrontierNever(f) == FALSE

\* line 86: self.goal in self.env.get_frontier_locs()
GoalOnFrontier(f) == goal \in Range(f)

\* ClearedBy with the loop over the adjacent tiles lost
ClearedOnlyCurrent(loc) == { loc }

\* lines 96-104: the tiles a clear tile confirms safe
ClearedBy(loc) == { loc } \cup CardinalLocs(loc)

\* lines 89-116: the perception is recorded and the store simplified
Perceive(loc, tile, clauses, poss, pits, safe) ==
    IF tile = "P" THEN
        [ kb |-> Simplify(Tell(clauses, Unit(loc, TRUE)), pits \cup { loc }, safe),
          possible_pits |-> poss \ { loc },
          pit_tiles |-> pits \cup { loc },
          safe_tiles |-> safe,
          adj_list |-> {},
          told |-> {} ]
    ELSE IF tile = "." THEN
        LET cleared == ClearedBy(loc)
        IN  [ kb |-> Simplify(TellAll(clauses, { Unit(t, FALSE) : t \in cleared }),
                              pits, safe \cup cleared),
              possible_pits |-> poss \ cleared,
              pit_tiles |-> pits,
              safe_tiles |-> safe \cup cleared,
              adj_list |-> {},
              told |-> {} ]
    ELSE
        LET w == warning_tile_clause(tile, loc, clauses, pits, safe)
            safe2 == safe \cup { loc }
        IN  [ kb |-> Simplify(w.kb, w.pit_tiles, safe2),
              possible_pits |->
                  (poss \ { loc }) \cup { t \in CardinalLocs(loc) : t \notin safe2 },
              pit_tiles |-> w.pit_tiles,
              safe_tiles |-> safe2,
              adj_list |-> w.adj_list,
              told |-> w.told ]

\* Score with the penalties lost
ScoreDistanceOnly(loc, poss, pits, safe) == get_manhattan_dist(loc)

\* lines 126-135: the score of one frontier location
Score(loc, poss, pits, safe) ==
    IF loc \in pits THEN get_manhattan_dist(loc) + PitPenalty
    ELSE IF loc \notin poss /\ loc \in safe THEN get_manhattan_dist(loc)
    ELSE get_manhattan_dist(loc) + PossiblePenalty

\* one iteration that leaves possible_pits alone
FrontierStepKeepsPossible(acc, loc, isPit, isSafe) ==
    LET pits == IF isPit THEN acc.pit_tiles \cup { loc } ELSE acc.pit_tiles
        safe == IF isSafe THEN acc.safe_tiles \cup { loc } ELSE acc.safe_tiles
    IN  [ possible_pits |-> acc.possible_pits,
          pit_tiles |-> pits,
          safe_tiles |-> safe,
          scores |-> Append(acc.scores,
                            [ loc |-> loc,
                              score |-> Score(loc, acc.possible_pits, pits, safe) ]) ]

\* lines 119-135: one iteration of the loop over the frontier
FrontierStep(acc, loc, isPit, isSafe) ==
    LET pits == IF isPit THEN acc.pit_tiles \cup { loc } ELSE acc.pit_tiles
        safe == IF isSafe THEN acc.safe_tiles \cup { loc } ELSE acc.safe_tiles
        poss == IF isPit \/ isSafe THEN acc.possible_pits \ { loc }
                ELSE acc.possible_pits
    IN  [ possible_pits |-> poss,
          pit_tiles |-> pits,
          safe_tiles |-> safe,
          scores |-> Append(acc.scores,
                            [ loc |-> loc, score |-> Score(loc, poss, pits, safe) ]) ]

\* lines 118-135: the loop over the frontier, from index i on
RECURSIVE FrontierLoop(_, _, _, _)
FrontierLoop(f, i, models, acc) ==
    IF i > Len(f) THEN acc
    ELSE FrontierLoop(f, i + 1, models,
             FrontierStep(acc, f[i], AskIn(models, f[i], TRUE), AskIn(models, f[i], FALSE)))

\* BestOf with <= for <: the last entry with the least score
RECURSIVE BestOfLast(_, _, _)
BestOfLast(scores, i, best) ==
    IF i > Len(scores) THEN best
    ELSE IF best.inf \/ scores[i].score <= best.score
         THEN BestOfLast(scores, i + 1,
                         [ inf |-> FALSE, score |-> scores[i].score, loc |-> scores[i].loc ])
         ELSE BestOfLast(scores, i + 1, best)

\* lines 137-140: the first entry of scores with the least score
RECURSIVE BestOf(_, _, _)
BestOf(scores, i, best) ==
    IF i > Len(scores) THEN best
    ELSE IF best.inf \/ scores[i].score < best.score
         THEN BestOf(scores, i + 1,
                     [ inf |-> FALSE, score |-> scores[i].score, loc |-> scores[i].loc ])
         ELSE BestOf(scores, i + 1, best)

NoBest == [ inf |-> TRUE, score |-> 0, loc |-> NoLoc ]

\* line 142: assigned and best_score
BestAccepted(scores, best) == Len(scores) > 0 /\ (best.inf \/ best.score # 0)

\* one call of think(perception) with the frontier the environment reports
think(loc, tile, f) ==
    LET kb0 == Tell(kb, Unit(goal, FALSE))
        safe0 == safe_tiles \cup { goal }
    IN
    /\ steps' = steps + 1
    /\ location' = loc
    /\ tile_type' = tile
    /\ frontier' = f
    /\ IF GoalOnFrontier(f) THEN
           /\ kb' = kb0
           /\ safe_tiles' = safe0
           /\ UNCHANGED << possible_pits, pit_tiles >>
           /\ adj_list' = {}
           /\ told' = {}
           /\ outcome' = "goal"
           /\ result' = goal
       ELSE
           \E p \in { Perceive(loc, tile, kb0, possible_pits, pit_tiles, safe0) } :
           \E models \in { Models(p.kb) } :
           \E acc \in { FrontierLoop(f, 1, models,
                         [ possible_pits |-> p.possible_pits,
                           pit_tiles |-> p.pit_tiles,
                           safe_tiles |-> p.safe_tiles,
                           scores |-> << >> ]) } :
           \E best \in { BestOf(acc.scores, 1, NoBest) } :
           /\ kb' = p.kb
           /\ possible_pits' = acc.possible_pits
           /\ pit_tiles' = acc.pit_tiles
           /\ safe_tiles' = acc.safe_tiles
           /\ adj_list' = p.adj_list
           /\ told' = p.told
           /\ IF BestAccepted(acc.scores, best) THEN
                  /\ outcome' = "best"
                  /\ result' = best.loc
              ELSE IF f = << >> THEN
                  \* random.choice([]) raises IndexError
                  /\ outcome' = "error"
                  /\ result' = NoLoc
              ELSE
                  /\ outcome' = "random"
                  /\ result' \in Range(f)

\* ------------------------------------------------------------------------
\* MazeAgent.is_safe_tile: "True", "False" or "None" for Python's True, False
\* and None
\* ------------------------------------------------------------------------
\* is_safe_tile with the two membership tests in the other order
is_safe_tilePitsFirst(loc) ==
    IF loc \in pit_tiles THEN "False"
    ELSE IF loc \in safe_tiles THEN "True"
    ELSE IF Ask(kb, loc, TRUE) THEN "False"
    ELSE IF Ask(kb, loc, FALSE) THEN "True"
    ELSE "None"

is_safe_tile(loc) ==
    IF loc \in safe_tiles THEN "True"
    ELSE IF loc \in pit_tiles THEN "False"
    ELSE IF Ask(kb, loc, TRUE) THEN "False"
    ELSE IF Ask(kb, loc, FALSE) THEN "True"
    ELSE "None"

Think ==
    /\ steps < MaxSteps
    /\ \E loc \in Locs, tile \in TileLabels :
           \E f \in FrontierOrders(loc) : think(loc, tile, f)

Next == Think

Spec == Init /\ [][Next]_vars

\* ------------------------------------------------------------------------
\* think driven by a consistent world: a fixed layout of pits whose tiles
\* carry truthful labels
\* ------------------------------------------------------------------------
TruePits == { <<2, 0>>, <<3, 1>>, <<2, 2>> }

TruthfulTile(loc) ==
    IF loc \in TruePits THEN "P"
    ELSE LET n == Cardinality(CardinalLocs(loc) \cap TruePits)
         IN  IF n = 0 THEN "."
             ELSE IF n = 1 THEN "1"
             ELSE IF n = 2 THEN "2"
             ELSE "3"

ThinkTruthful ==
    /\ steps < MaxSteps
    /\ \E loc \in Locs :
           \E f \in FrontierOrders(loc) : think(loc, TruthfulTile(loc), f)

NextWorld == ThinkTruthful

SpecWorld == Init /\ [][NextWorld]_vars

\* ------------------------------------------------------------------------
\* Properties
\* ------------------------------------------------------------------------
\* the last think call went past the goal shortcut and handled its perception
Processed == outcome \in { "best", "random", "error" }

WarningCount(tile) == IF tile = "1" THEN 1 ELSE IF tile = "2" THEN 2 ELSE 3

\* the score section 4.4 gives a location, from the classification sets
StatedScore(loc) ==
    get_manhattan_dist(loc) +
        (IF loc \in pit_tiles THEN 20 ELSE IF loc \in safe_tiles THEN 0 ELSE 15)

\* C1: for a warning label k, the clauses the encoder tells are satisfied by
\* exactly the hazard/safe assignments over the unresolved neighbours N that
\* contain exactly k hazards.
C1_EncoderExactlyK ==
    (Processed /\ tile_type \in { "1", "2", "3" }) =>
        \A m \in SUBSET adj_list :
            (\A c \in told : Satisfies(m, c)) <=>
                (Cardinality(m) = WarningCount(tile_type))

\* C2: with a non-empty frontier that does not hold the goal, think returns a
\* frontier location whose stated score (distance + 20 hazard / + 0 safe /
\* + 15 otherwise) is minimal over the frontier.
C2_ReturnsMinimalScore ==
    (outcome # "init" /\ frontier # << >> /\ goal \notin Range(frontier)) =>
        /\ outcome = "best"
        /\ result \in Range(frontier)
        /\ \A l \in Range(frontier) : StatedScore(result) <= StatedScore(l)

C2_Witness ==
    /\ outcome = "best"
    /\ Len(frontier) = 2
    /\ result = frontier[2]
    /\ frontier[1] \in pit_tiles
    /\ result \in possible_pits
    /\ StatedScore(result) < StatedScore(frontier[1])

\* C3: whenever the goal is on the frontier, think returns the goal, whatever
\* the tile label, the classification sets and the other frontier locations.
C3_GoalShortcut ==
    (outcome # "init" /\ goal \in Range(frontier)) => result = goal

C3_Witness ==
    /\ outcome = "goal"
    /\ result = goal
    /\ Len(frontier) = 2
    /\ frontier[1] # goal
    /\ tile_type = "3"
    /\ steps = 2

\* the state a clear perception at `location` is claimed to leave behind
ClearedAreSafe ==
    \A t \in { location } \cup CardinalLocs(location) :
        /\ t \in safe_tiles
        /\ t \notin possible_pits
        /\ Ask(kb, t, FALSE)

C5_DegenerateUnits ==
    [][ ( /\ steps' = steps + 1
          /\ Processed'
          /\ tile_type' \in { "1", "2", "3" }
          /\ Cardinality(adj_list') = WarningCount(tile_type') )
        =>
        ( /\ told' = { Unit(t, TRUE) : t \in adj_list' }
          /\ adj_list' \subseteq pit_tiles'
          /\ (pit_tiles' \ pit_tiles) \subseteq
                adj_list' \cup { l \in Range(frontier') : Ask(kb', l, TRUE) } )
      ]_vars

TiedMinimum ==
    \E i, j \in 1 .. Len(frontier) :
        /\ i < j
        /\ StatedScore(frontier[i]) = StatedScore(frontier[j])
        /\ \A l \in Range(frontier) : StatedScore(frontier[i]) <= StatedScore(l)

\* C7: when two or more frontier locations share the minimal score, think
\* returns the one that comes first in the frontier's iteration order, and
\* the random source is not consulted.
C7_TieBreakFirst ==
    (Processed /\ TiedMinimum) =>
        /\ outcome = "best"
        /\ \E i \in 1 .. Len(frontier) :
              /\ result = frontier[i]
              /\ \A l \in Range(frontier) : StatedScore(frontier[i]) <= StatedScore(l)
              /\ \A j \in 1 .. (i - 1) : StatedScore(frontier[j]) > StatedScore(frontier[i])

C7_Witness ==
    /\ Processed
    /\ TiedMinimum
    /\ result = frontier[1]
    /\ frontier[1] \in possible_pits
    /\ frontier[2] \in possible_pits

\* C8: if both the hazard query and the safe query succeed for one frontier
\* location in a think step, the step ends in an error and returns no target.
C8_ContradictionIsError ==
    ( /\ Processed
      /\ \E l \in Range(frontier) : Ask(kb, l, TRUE) /\ Ask(kb, l, FALSE) )
    => (outcome = "error" /\ result = NoLoc)

\* C9: a think step whose tile label is not one of ".", "P", "1", "2", "3"
\* ends in an error and leaves the three classification sets unchanged.
C9_MalformedIsError ==
    [][ (steps' = steps + 1 /\ tile_type' = "X")
        =>
        ( /\ outcome' = "error"
          /\ UNCHANGED << safe_tiles, pit_tiles, possible_pits >> )
      ]_vars

\* C10: a think step with an empty frontier is recovered by the random
\* fallback and never ends in an error.
C10_EmptyFrontierRecovered ==
    (outcome # "init" /\ frontier = << >>) => outcome # "error"

\* C11: when a warning label is perceived on a tile whose cardinal neighbours
\* are all known safe, the encoder tells no clause (no empty clause, no clause
\* about a known-safe neighbour) and adds no location to the confirmed-hazard
\* set (what the frontier queries of the step entail aside).
C11_NoUnresolvedIsNoOp ==
    [][ ( /\ steps' = steps + 1
          /\ Processed'
          /\ tile_type' \in { "1", "2", "3" }
          /\ adj_list' = {} )
        =>
        ( /\ told' = {}
          /\ (pit_tiles' \ pit_tiles) \subseteq
                { l \in Range(frontier') : Ask(kb', l, TRUE) } )
      ]_vars

\* C12: in every reachable state the start, the goal and every cardinal
\* neighbour of the start are confirmed safe, and the goal is not a possible
\* hazard.
C12_StartAndGoalStaySafe ==
    /\ ({ start, goal } \cup CardinalLocs(start)) \subseteq safe_tiles
    /\ goal \notin possible_pits

C12_Witness ==
    /\ steps = 2
    /\ Processed
    /\ tile_type \in { "1", "2", "3" }
    /\ goal \in CardinalLocs(location)
    /\ goal \in pit_tiles
    /\ start \in pit_tiles
    /\ C12_StartAndGoalStaySafe

\* what is_safe_tile may answer None for: a location in neither confirmed set
\* that the store decides neither way
Undetermined(loc) ==
    /\ loc \notin safe_tiles
    /\ loc \notin pit_tiles
    /\ ~Ask(kb, loc, TRUE)
    /\ ~Ask(kb, loc, FALSE)

C14_HazardAndSafeDisjoint == pit_tiles \cap safe_tiles = {}

\* C15: in every reachable state the confirmed-hazard set and the
\* possible-hazard set are disjoint.
C15_HazardAndPossibleDisjoint == pit_tiles \cap possible_pits = {}

\* C16: in every reachable state the confirmed-safe set and the
\* possible-hazard set are disjoint.
C16_SafeAndPossibleDisjoint == safe_tiles \cap possible_pits = {}

\* a warning step made a neighbour a possible hazard and the frontier loop of
\* the same step then found it safe
C16_Witness ==
    /\ Processed
    /\ tile_type \in { "1", "2" }
    /\ \E l \in adj_list \cap Range(frontier) :
           /\ l \in safe_tiles
           /\ l \notin pit_tiles
           /\ l \notin possible_pits
    /\ possible_pits # {}

\* C17: the random fallback is reached only with an empty frontier; in every
\* think step with a non-empty frontier that does not contain the goal every
\* score, so the minimal one, is strictly positive and the step returns a
\* frontier location without the random source.
C17_RandomOnlyWhenEmpty ==
    /\ outcome \in { "random", "error" } => frontier = << >>
    /\ (outcome # "init" /\ frontier # << >> /\ goal \notin Range(frontier)) =>
           /\ \A l \in Range(frontier) :
                  Score(l, possible_pits, pit_tiles, safe_tiles) > 0
           /\ outcome = "best"
           /\ result \in Range(frontier)

C17_Witness ==
    /\ outcome = "best"
    /\ frontier # << >>
    /\ goal \notin Range(frontier)
    /\ Score(result, possible_pits, pit_tiles, safe_tiles) = 1

====
